---------------------------- MODULE Spec2Model ----------------------------
(***************************************************************************)
(* A model of pystockwatch (src/src/pystockwatch/pystockwatch.py): the     *)
(* four public functions percent_change, profit_viz, volume_change and     *)
(* volume_viz, as a state machine that runs one invocation at a time.      *)
(*                                                                         *)
(* Python values are tagged records (type, s, n, d): a str is its sequence *)
(* of text parts, an int its value, a float an exact fraction n/d or one   *)
(* of nan, +inf, -inf.  Rounding of binary floating point is not modelled. *)
(* The market-data provider (yfinance, pandas_datareader) is the           *)
(* environment: what a lookup or a download answers is chosen by \E.       *)
(***************************************************************************)
EXTENDS Integers, Sequences, FiniteSets

\* ------------------------------------------------------------ bounds
\* Trading days the provider may report are 1..MaxDay.
MaxDay == 3
\* Close prices the provider may report are 0..MaxPrice.
MaxPrice == 1
\* Volumes the provider may report are 0..MaxVolume.
MaxVolume == 2

\* ------------------------------------------------------- Python values
PyStr(parts) == [type |-> "str", s |-> parts, n |-> 0, d |-> 0]
PyInt(k) == [type |-> "int", s |-> <<>>, n |-> k, d |-> 1]
NaN == [type |-> "float", s |-> <<"nan">>, n |-> 0, d |-> 0]
Inf(sign) == [type |-> "float", s |-> <<"inf">>, n |-> sign, d |-> 0]

Abs(x) == IF x < 0 THEN -x ELSE x
Sign(x) == IF x < 0 THEN -1 ELSE IF x > 0 THEN 1 ELSE 0

RECURSIVE GCD(_, _)
GCD(a, b) == IF b = 0 THEN a ELSE GCD(b, a % b)

\* The float n/d (d # 0), in lowest terms with a positive denominator.
Float(n, d) ==
    LET g == GCD(Abs(n), Abs(d))
        sg == IF d < 0 THEN -1 ELSE 1
    IN  [type |-> "float", s |-> <<"num">>, n |-> sg * (n \div g), d |-> Abs(d) \div g]

IsNum(v) == v.s = <<"num">>
IsNaN(v) == v.s = <<"nan">>
IsInf(v) == v.s = <<"inf">>

\* An int column cell read as a float (pandas upcasts on arithmetic).
AsFloat(v) == IF v.type = "int" THEN Float(v.n, 1) ELSE v

\* a - b on floats (IEEE: nan propagates, inf - inf of one sign is nan).
FSub(a, b) ==
    IF IsNaN(a) \/ IsNaN(b) THEN NaN
    ELSE IF IsNum(a) /\ IsNum(b) THEN Float(a.n * b.d - b.n * a.d, a.d * b.d)
    ELSE IF IsInf(a) /\ IsInf(b) THEN (IF a.n = b.n THEN NaN ELSE a)
    ELSE IF IsInf(a) THEN a
    ELSE Inf(-b.n)

\* a / b on floats (numpy: x/0 is +-inf, 0/0 is nan, no exception).
FDiv(a, b) ==
    IF IsNaN(a) \/ IsNaN(b) THEN NaN
    ELSE IF IsNum(a) /\ IsNum(b)
         THEN IF b.n = 0
              THEN (IF a.n = 0 THEN NaN ELSE Inf(Sign(a.n)))
              ELSE Float(a.n * b.d, a.d * b.n)
    ELSE IF IsInf(a) /\ IsInf(b) THEN NaN
    ELSE IF IsInf(a) THEN Inf(IF b.n < 0 THEN -a.n ELSE a.n)
    ELSE Float(0, 1)

\* a * b on floats (0 * inf is nan).
FMul(a, b) ==
    IF IsNaN(a) \/ IsNaN(b) THEN NaN
    ELSE IF IsNum(a) /\ IsNum(b) THEN Float(a.n * b.n, a.d * b.d)
    ELSE IF Sign(a.n) * Sign(b.n) = 0 THEN NaN
    ELSE Inf(Sign(a.n) * Sign(b.n))

\* v > 0 and v < 0 as numpy compares: every comparison with nan is False.
FGtZero(v) == ~IsNaN(v) /\ v.n > 0
FLtZero(v) == ~IsNaN(v) /\ v.n < 0

\* A cell cast to numpy's unicode dtype: str(nan) is 'nan'.
AsStr(v) ==
    IF v.type = "str" THEN v
    ELSE IF IsNaN(v) THEN PyStr(<<"nan">>)
    ELSE IF IsInf(v) THEN PyStr(<<"inf">>)
    ELSE PyStr(<<"number">>)

\* ------------------------------------------------------------- frames
\* A frame is None, an unbound local, or a DataFrame: its value columns'
\* names (each a sequence of text parts) and its rows, a row being its
\* Date and one cell per column.
None == [kind |-> "None", cols |-> <<>>, rows |-> <<>>]
Unbound == [kind |-> "unbound", cols |-> <<>>, rows |-> <<>>]
DataFrame(cols, rows) == [kind |-> "DataFrame", cols |-> cols, rows |-> rows]

Range(f) == {f[k] : k \in DOMAIN f}
Dates(frame) == {frame.rows[k].Date : k \in DOMAIN frame.rows}

\* ------------------------------------------------- the provider's data
RECURSIVE SortedSeq(_)
\* The days of S in increasing order: the provider's index has no
\* duplicate and is sorted by date.
SortedSeq(S) ==
    IF S = {} THEN <<>>
    ELSE LET m == CHOOSE x \in S : \A y \in S : x <= y
         IN  <<m>> \o SortedSeq(S \ {m})

DaySeqs == {SortedSeq(S) : S \in SUBSET (1..MaxDay)}

\* Every frame the provider may answer with the given value columns and
\* cells: any set of trading days, any cell in each row and column.
HistoryFrames(cols, cells) ==
    UNION {{DataFrame(cols, [k \in 1..Len(ds) |-> [Date |-> ds[k], val |-> v[k]]]) :
                v \in [1..Len(ds) -> [1..Len(cols) -> cells]]} : ds \in DaySeqs}

PriceCells == {Float(p, 1) : p \in 0..MaxPrice}
VolumeCells == {PyInt(v) : v \in 0..MaxVolume}

RECURSIVE Split(_)
\* str.split(): the words of a str, its parts other than " ".
Split(parts) ==
    IF parts = <<>> THEN <<>>
    ELSE IF Head(parts) = " " THEN Split(Tail(parts))
    ELSE <<Head(parts)>> \o Split(Tail(parts))

\* The Close columns of yf.download's frame: "Close" for one ticker, one
\* ("Close", ticker) column per ticker for several.
CloseColumns(ticker) ==
    LET w == Split(ticker.s)
    IN  IF Len(w) = 1 THEN <<(<<"Close">>)>>
        ELSE [k \in 1..Len(w) |-> <<"Close", w[k]>>]

\* yf.download(...) followed by the drop of every column but Close: the
\* frames are enumerated by their Close columns alone, the dropped columns
\* are never read.  None stands for an absent frame.
yf_download_Close(ticker) == HistoryFrames(CloseColumns(ticker), PriceCells) \cup {None}

\* pdr.get_data_yahoo(...)['Volume'].reset_index(): Date and Volume.
get_data_yahoo_Volume == HistoryFrames(<<(<<"Volume">>)>>, VolumeCells) \cup {None}

\* What yf.Ticker(t) can do: build the lookup object or, for a ticker
\* that is no str, fail inside the library with AttributeError (str
\* methods are called on the ticker).
yf_Ticker(ticker) ==
    IF ticker.type = "str" THEN {"Ticker"} ELSE {"Ticker", "AttributeError"}

\* What ticker.info["regularMarketPrice"] can answer: a price, or None.
regularMarketPrice == {"price", "None"}

\* yf.Ticker(t) and then its .info["regularMarketPrice"].
yf_Ticker_info(ticker) ==
    (yf_Ticker(ticker) \ {"Ticker"}) \cup regularMarketPrice

\* -------------------------------------------------------------- dates
\* A date argument is its text split at "-": a sequence of digit fields.
D_2020_01_01 == <<(<<2, 0, 2, 0>>), (<<0, 1>>), (<<0, 1>>)>>
D_2020_02_01 == <<(<<2, 0, 2, 0>>), (<<0, 2>>), (<<0, 1>>)>>
D_2020_02_30 == <<(<<2, 0, 2, 0>>), (<<0, 2>>), (<<3, 0>>)>>
D_01_01_2020 == <<(<<0, 1>>), (<<0, 1>>), (<<2, 0, 2, 0>>)>>

RECURSIVE DigitsValue(_)
DigitsValue(ds) ==
    IF ds = <<>> THEN 0 ELSE 10 * DigitsValue(SubSeq(ds, 1, Len(ds) - 1)) + ds[Len(ds)]

IsLeap(y) == (y % 4 = 0 /\ y % 100 # 0) \/ y % 400 = 0
DaysInMonth(y, m) ==
    IF m = 2 THEN (IF IsLeap(y) THEN 29 ELSE 28)
    ELSE IF m \in {4, 6, 9, 11} THEN 30 ELSE 31

\* datetime.datetime.strptime(text, "%Y-%m-%d"): %Y is four digits, %m and
\* %d one or two; the month and the day must exist.  ok = FALSE stands for
\* ValueError.
strptime(text) ==
    IF Len(text) # 3 \/ Len(text[1]) # 4
       \/ Len(text[2]) \notin {1, 2} \/ Len(text[3]) \notin {1, 2}
    THEN [ok |-> FALSE, y |-> 0, m |-> 0, d |-> 0]
    ELSE LET y == DigitsValue(text[1])
             m == DigitsValue(text[2])
             d == DigitsValue(text[3])
         IN  IF y < 1 \/ m \notin 1..12 \/ d < 1 \/ d > DaysInMonth(y, m)
             THEN [ok |-> FALSE, y |-> 0, m |-> 0, d |-> 0]
             ELSE [ok |-> TRUE, y |-> y, m |-> m, d |-> d]

\* a < b on parsed dates.
DateLess(a, b) ==
    \/ a.y < b.y
    \/ a.y = b.y /\ a.m < b.m
    \/ a.y = b.y /\ a.m = b.m /\ a.d < b.d

\* ----------------------------------------------------- percent_change
\* One row rebased on the row `first`, column by column (line 81's right
\* side): (row - first) / first * 100.
PercentOfRow(row, first) ==
    [row EXCEPT !.val = [c \in DOMAIN row.val |->
        FMul(FDiv(FSub(row.val[c], first.val[c]), first.val[c]), Float(100, 1))]]

RECURSIVE RebaseLoop(_, _)
\* for i in range(1, len(data)): data.iloc[i,:] = ...  (in place: row i is
\* rebased on whatever row 0 holds when it is reached).  Python's row i is
\* rows[i + 1].
RebaseLoop(rows, i) ==
    IF i > Len(rows) THEN rows
    ELSE RebaseLoop([rows EXCEPT ![i] = PercentOfRow(rows[i], rows[1])], i + 1)

\* data.iloc[0,:] = (data.iloc[0,:] - data.iloc[0,:])/data.iloc[0,:]*100
RebaseRowZero(rows) == [rows EXCEPT ![1] = PercentOfRow(rows[1], rows[1])]

\* A faulty variant of Rebase: row 0 rebased before the loop.
RebaseRowZeroFirst(rows) == RebaseLoop(RebaseRowZero(rows), 2)

\* Lines 80-83 on a frame with at least one row: the loop, then row 0.
Rebase(rows) == RebaseRowZero(RebaseLoop(rows, 2))

\* A column name with its part `old` replaced by `new`
\* (DataFrame.rename(columns={old: new}), also on a two-level column).
RenamePart(col, old, new) == [k \in DOMAIN col |-> IF col[k] = old THEN new ELSE col[k]]

\* data.rename(columns={"Close": "Price Change Percentage(%)"})
RenameClose(frame) ==
    [frame EXCEPT !.cols = [k \in DOMAIN frame.cols |->
        RenamePart(frame.cols[k], "Close", "Price Change Percentage(%)")]]

\* ------------------------------------------------------ volume_change
\* A faulty variant of Diff: the difference taken the other way round.
DiffReversed(cells) ==
    [k \in DOMAIN cells |->
        IF k = 1 THEN NaN ELSE FSub(AsFloat(cells[k - 1]), AsFloat(cells[k]))]

\* df['Volume'].diff(): nan in row 0, then Volume[i] - Volume[i-1].
Diff(cells) ==
    [k \in DOMAIN cells |->
        IF k = 1 THEN NaN ELSE FSub(AsFloat(cells[k]), AsFloat(cells[k - 1]))]

RECURSIVE FirstTrue(_, _, _, _)
\* np.select's pick for element k: the choice of the first condition
\* that holds there, else the default.
FirstTrue(condlist, choicelist, default, k) ==
    IF condlist = <<>> THEN default
    ELSE IF Head(condlist)[k] THEN Head(choicelist)
    ELSE FirstTrue(Tail(condlist), Tail(choicelist), default, k)

\* A faulty variant of np_select: the default is not cast to the choices' dtype.
np_select_uncast(condlist, choicelist, default, n) ==
    [k \in 1..n |-> FirstTrue(condlist, choicelist, default, k)]

\* np.select(condlist, choicelist, default) over n elements: the result has
\* the common dtype of the choices and the default, here unicode, so every
\* element is cast to str.
np_select(condlist, choicelist, default, n) ==
    [k \in 1..n |-> AsStr(FirstTrue(condlist, choicelist, default, k))]

Increase == PyStr(<<"Increase">>)
Decrease == PyStr(<<"Decrease">>)
nan == PyStr(<<"nan">>)

\* Lines 243-245: the Volume_Change label of every row of df.
VolumeChange(df) ==
    LET Volume == [k \in DOMAIN df.rows |-> df.rows[k].val[1]]
        Volume_dif == Diff(Volume)
    IN  np_select(<<[k \in DOMAIN Volume_dif |-> FGtZero(Volume_dif[k])],
                    [k \in DOMAIN Volume_dif |-> FLtZero(Volume_dif[k])]>>,
                  <<Increase, Decrease>>, NaN, Len(Volume))

\* Line 248's test on one indicator.
IncorrectIndicator(indicator) ==
    indicator # Decrease /\ indicator # Increase /\ indicator # nan

\* df[['Date', 'Volume', 'Volume_Change']] of the frame with its labels.
VolumeChangeFrame(df, labels) ==
    DataFrame(<<(<<"Volume">>), (<<"Volume_Change">>)>>,
              [k \in DOMAIN df.rows |->
                  [Date |-> df.rows[k].Date, val |-> <<df.rows[k].val[1], labels[k]>>]])

\* --------------------------------------------------------- profit_viz
\* The right rows of one left row's Date, each joined to the left row.
JoinRow(lrow, rrows) ==
    LET hits == SelectSeq(rrows, LAMBDA r : r.Date = lrow.Date)
    IN  [k \in DOMAIN hits |-> [Date |-> lrow.Date, val |-> lrow.val \o hits[k].val]]

RECURSIVE InnerRows(_, _)
\* how="inner": the left rows in order, each with its matches on the right.
InnerRows(lrows, rrows) ==
    IF lrows = <<>> THEN <<>>
    ELSE JoinRow(Head(lrows), rrows) \o InnerRows(Tail(lrows), rrows)

RECURSIVE LeftRows(_, _, _)
\* how="left": as inner, but a left row with no match is kept, with nan
\* in the n columns of the right.
LeftRows(lrows, rrows, n) ==
    IF lrows = <<>> THEN <<>>
    ELSE LET j == JoinRow(Head(lrows), rrows)
         IN  (IF j = <<>>
              THEN <<[Date |-> Head(lrows).Date,
                      val |-> Head(lrows).val \o [k \in 1..n |-> NaN]]>>
              ELSE j) \o LeftRows(Tail(lrows), rrows, n)

\* The columns of a merge: a name on both sides gets the suffixes _x, _y.
MergeColumns(left, right) ==
    [k \in DOMAIN left.cols |->
        IF left.cols[k] \in Range(right.cols) THEN left.cols[k] \o <<"_x">> ELSE left.cols[k]]
    \o [k \in DOMAIN right.cols |->
        IF right.cols[k] \in Range(left.cols) THEN right.cols[k] \o <<"_y">> ELSE right.cols[k]]

\* A faulty variant of pd_merge: a left join.
pd_merge_left(left, right) ==
    DataFrame(MergeColumns(left, right), LeftRows(left.rows, right.rows, Len(right.cols)))

\* pd.merge(left, right, on="Date"), how="inner" by default.
pd_merge(left, right) ==
    DataFrame(MergeColumns(left, right), InnerRows(left.rows, right.rows))

ProfitPercentStock == <<"Profit Percent Stock">>
ProfitPercentBenchmark == <<"Profit Percent Benchmark">>

\* Line 163's rename of the two suffixed columns.
RenameProfit(frame) ==
    [frame EXCEPT !.cols = [k \in DOMAIN frame.cols |->
        IF frame.cols[k] = <<"Price Change Percentage(%)", "_x">> THEN ProfitPercentStock
        ELSE IF frame.cols[k] = <<"Price Change Percentage(%)", "_y">> THEN ProfitPercentBenchmark
        ELSE frame.cols[k]]]

\* Lines 185-192: the chart of profit_df, folded on the two profit
\* columns into the field company, coloured by a scale of company.
AltChart(profit, stock, benchmark) ==
    [kind |-> "Chart", data |-> profit, mark |-> "line",
     fold |-> <<ProfitPercentStock, ProfitPercentBenchmark>>,
     as_ |-> <<"company", "Profit Percent">>,
     x |-> "Date:T", y |-> "Profit Percent:Q",
     color |-> [field |-> "company:N",
                scale |-> [domain |-> <<stock, benchmark>>, range |-> <<"red", "blue">>]]]

\* transform_fold: the values the key field (company) takes are the names
\* of the folded columns.
FoldKeys(chart) == {PyStr(chart.fold[k]) : k \in DOMAIN chart.fold}

\* The colour an ordinal scale with an explicit domain gives a value: the
\* range entry at the value's place in the domain, none outside it.
ScaleColor(scale, v) ==
    IF \E k \in DOMAIN scale.domain : scale.domain[k] = v
    THEN scale.range[CHOOSE k \in DOMAIN scale.domain :
                        /\ scale.domain[k] = v
                        /\ \A j \in DOMAIN scale.domain : scale.domain[j] = v => k <= j]
    ELSE "none"

\* ------------------------------------------------------------- state
VARIABLES
    pdr_override,      \* process-wide: yf.pdr_override() has patched pandas_datareader
    op,                \* the public call in progress: function and arguments
    pc,                \* where the public function called stands
    callee,            \* the activation of percent_change / volume_change
    stock_profit,      \* profit_viz's local
    benchmark_profit,  \* profit_viz's local
    profit_df,         \* profit_viz's local
    vdf,               \* volume_viz's local
    display,           \* what fig.show() has rendered in this call
    outcome,           \* how the public call ended: returned or raised
    retval,            \* the value the public call returned
    net                \* the provider calls of this call, in order

vars == <<pdr_override, op, pc, callee, stock_profit, benchmark_profit, profit_df,
          vdf, display, outcome, retval, net>>

NoDate == <<>>
NoTicker == PyStr(<<>>)
NoExc == [type |-> "none", line |-> 0]
Exc(type, line) == [type |-> type, line |-> line]

NoOp == [fn |-> "none", stock_ticker |-> NoTicker, start_date |-> NoDate,
         end_date |-> NoDate, benchmark_ticker |-> NoTicker]

\* An activation: its function, its position, its parameters, its frame
\* (data in percent_change, df in volume_change), the frame as it was
\* fetched, and the exception it raised.
NoCall == [fn |-> "none", pc |-> "none", stock_ticker |-> NoTicker,
           start_date |-> NoDate, end_date |-> NoDate,
           data |-> Unbound, fetched |-> Unbound, exc |-> NoExc]

Call(fn, stock_ticker, start_date, end_date) ==
    [fn |-> fn, pc |-> IF fn = "volume_change" THEN "override" ELSE "ticker",
     stock_ticker |-> stock_ticker, start_date |-> start_date, end_date |-> end_date,
     data |-> Unbound, fetched |-> Unbound, exc |-> NoExc]

NoOutcome == [kind |-> "none", exc |-> NoExc]

\* The arguments the calls are made with.
AAPL == PyStr(<<"AAPL">>)
SPY == PyStr(<<"SPY">>)
AAPL_MSFT == PyStr(<<"AAPL", " ", "MSFT">>)
NotAStr == PyInt(5)
StartDates == {D_2020_02_01, D_01_01_2020}
EndDates == {D_2020_01_01, D_2020_02_01, D_2020_02_30}

Init ==
    /\ pdr_override = FALSE
    /\ op = NoOp
    /\ pc = "idle"
    /\ callee = NoCall
    /\ stock_profit = Unbound
    /\ benchmark_profit = Unbound
    /\ profit_df = Unbound
    /\ vdf = Unbound
    /\ display = <<>>
    /\ outcome = NoOutcome
    /\ retval = None
    /\ net = <<>>

\* The caller's variables a step of the callee leaves alone.
CallerUnchanged ==
    UNCHANGED <<op, pc, stock_profit, benchmark_profit, profit_df, vdf, display,
                outcome, retval>>

Running(fn, at) == callee.fn = fn /\ callee.pc = at
Goto(at) == callee' = [callee EXCEPT !.pc = at]
Raise(type, line) == callee' = [callee EXCEPT !.pc = "raised", !.exc = Exc(type, line)]

\* ------------------------------------------------- a public call starts
InvokePercentChange ==
    /\ pc = "idle"
    /\ \E t \in {AAPL, AAPL_MSFT, NotAStr}, s \in StartDates, e \in EndDates :
        /\ op' = [NoOp EXCEPT !.fn = "percent_change", !.stock_ticker = t,
                              !.start_date = s, !.end_date = e]
        /\ callee' = Call("percent_change", t, s, e)
    /\ pc' = "call"
    /\ UNCHANGED <<pdr_override, stock_profit, benchmark_profit, profit_df, vdf,
                   display, outcome, retval, net>>

InvokeVolumeChange ==
    /\ pc = "idle"
    /\ \E t \in {AAPL, NotAStr}, s \in StartDates, e \in EndDates :
        /\ op' = [NoOp EXCEPT !.fn = "volume_change", !.stock_ticker = t,
                              !.start_date = s, !.end_date = e]
        /\ callee' = Call("volume_change", t, s, e)
    /\ pc' = "call"
    /\ UNCHANGED <<pdr_override, stock_profit, benchmark_profit, profit_df, vdf,
                   display, outcome, retval, net>>

InvokeProfitViz ==
    /\ pc = "idle"
    /\ \E t \in {AAPL, NotAStr}, b \in {SPY, NotAStr}, s \in StartDates, e \in EndDates :
        op' = [fn |-> "profit_viz", stock_ticker |-> t, start_date |-> s,
               end_date |-> e, benchmark_ticker |-> b]
    /\ pc' = "tickers"
    /\ UNCHANGED <<pdr_override, callee, stock_profit, benchmark_profit, profit_df,
                   vdf, display, outcome, retval, net>>

InvokeVolumeViz ==
    /\ pc = "idle"
    /\ \E t \in {AAPL, NotAStr}, s \in StartDates, e \in EndDates :
        /\ op' = [NoOp EXCEPT !.fn = "volume_viz", !.stock_ticker = t,
                              !.start_date = s, !.end_date = e]
        /\ callee' = Call("volume_change", t, s, e)
    /\ pc' = "vdf"
    /\ UNCHANGED <<pdr_override, stock_profit, benchmark_profit, profit_df, vdf,
                   display, outcome, retval, net>>

\* ----------------------------------------------------- percent_change
\* Lines 53-55: the ticker lookup, a call to the provider.
percent_change_ticker ==
    /\ Running("percent_change", "ticker")
    /\ \E info \in yf_Ticker_info(callee.stock_ticker) :
        \/ /\ info = "AttributeError"
           /\ Raise("AttributeError", 53)
           /\ UNCHANGED net
        \/ /\ info = "None"
           /\ Raise("NameError", 55)
           /\ net' = Append(net, "info")
        \/ /\ info = "price"
           /\ Goto("dates")
           /\ net' = Append(net, "info")
    /\ CallerUnchanged
    /\ UNCHANGED pdr_override

\* A faulty variant of percent_change_dates: the dates are validated only after
\* the download has been made.
percent_change_dates_after_download ==
    /\ Running("percent_change", "dates")
    /\ net' = Append(net, "download")
    /\ LET start == strptime(callee.start_date)
           end == strptime(callee.end_date)
       IN  IF ~start.ok THEN Raise("ValueError", 61)
           ELSE IF ~end.ok THEN Raise("ValueError", 66)
           ELSE IF DateLess(end, start) THEN Raise("ValueError", 71)
           ELSE Goto("rebase")
    /\ CallerUnchanged
    /\ UNCHANGED pdr_override

\* Lines 58-71: both dates parse, and the end is not before the start.
percent_change_dates ==
    /\ Running("percent_change", "dates")
    /\ LET start == strptime(callee.start_date)
           end == strptime(callee.end_date)
       IN  IF ~start.ok THEN Raise("ValueError", 61)
           ELSE IF ~end.ok THEN Raise("ValueError", 66)
           ELSE IF DateLess(end, start) THEN Raise("ValueError", 71)
           ELSE Goto("download")
    /\ CallerUnchanged
    /\ UNCHANGED <<pdr_override, net>>

\* Lines 74-77: the download, a call to the provider, and the drop of the
\* other columns.  A ticker that is no str fails in the library; an absent
\* frame has no drop.
percent_change_download ==
    /\ Running("percent_change", "download")
    /\ net' = Append(net, "download")
    /\ IF callee.stock_ticker.type # "str" THEN Raise("AttributeError", 74)
       ELSE \E data \in yf_download_Close(callee.stock_ticker) :
            IF data = None
            THEN callee' = [callee EXCEPT !.pc = "raised", !.fetched = None,
                                          !.exc = Exc("AttributeError", 77)]
            ELSE callee' = [callee EXCEPT !.pc = "rebase", !.fetched = data,
                                          !.data = data]
    /\ CallerUnchanged
    /\ UNCHANGED pdr_override

\* Lines 80-89: the loop over the rows, row 0 (which an empty frame does
\* not have), the rename, the return.
percent_change_rebase ==
    /\ Running("percent_change", "rebase")
    /\ IF callee.data.rows = <<>> THEN Raise("IndexError", 83)
       ELSE callee' = [callee EXCEPT
                !.pc = "return",
                !.data = RenameClose([callee.data EXCEPT !.rows = Rebase(callee.data.rows)])]
    /\ CallerUnchanged
    /\ UNCHANGED <<pdr_override, net>>

\* ------------------------------------------------------ volume_change
\* A faulty variant of volume_change_override: the call toggles the mode.
volume_change_override_toggles ==
    /\ Running("volume_change", "override")
    /\ pdr_override' = ~pdr_override
    /\ Goto("ticker")
    /\ CallerUnchanged
    /\ UNCHANGED net

\* Line 224: yf.pdr_override() patches pandas_datareader for the process.
volume_change_override ==
    /\ Running("volume_change", "override")
    /\ pdr_override' = TRUE
    /\ Goto("ticker")
    /\ CallerUnchanged
    /\ UNCHANGED net

\* Lines 226-228: the ticker lookup, a call to the provider.
volume_change_ticker ==
    /\ Running("volume_change", "ticker")
    /\ \E info \in yf_Ticker_info(callee.stock_ticker) :
        \/ /\ info = "AttributeError"
           /\ Raise("AttributeError", 226)
           /\ UNCHANGED net
        \/ /\ info = "None"
           /\ Raise("NameError", 228)
           /\ net' = Append(net, "info")
        \/ /\ info = "price"
           /\ Goto("dates")
           /\ net' = Append(net, "info")
    /\ CallerUnchanged
    /\ UNCHANGED pdr_override

\* Lines 230-236: both dates parse; their order is not compared.
volume_change_dates ==
    /\ Running("volume_change", "dates")
    /\ IF ~strptime(callee.start_date).ok THEN Raise("ValueError", 233)
       ELSE IF ~strptime(callee.end_date).ok THEN Raise("ValueError", 236)
       ELSE Goto("fetch")
    /\ CallerUnchanged
    /\ UNCHANGED <<pdr_override, net>>

\* Line 237: the fetch through pandas_datareader, which the override has
\* patched to yfinance's download; None has no ['Volume'].
volume_change_fetch ==
    /\ Running("volume_change", "fetch")
    /\ net' = Append(net, IF pdr_override THEN "download" ELSE "datareader")
    /\ IF callee.stock_ticker.type # "str" THEN Raise("AttributeError", 237)
       ELSE \E df \in get_data_yahoo_Volume :
            IF df = None
            THEN callee' = [callee EXCEPT !.pc = "raised", !.fetched = None,
                                          !.exc = Exc("TypeError", 237)]
            ELSE callee' = [callee EXCEPT !.pc = "classify", !.fetched = df, !.data = df]
    /\ CallerUnchanged
    /\ UNCHANGED pdr_override

\* Lines 239-250: the differences, the labels, the check of every label,
\* the return of Date, Volume and Volume_Change.
volume_change_classify ==
    /\ Running("volume_change", "classify")
    /\ LET Volume_Change == VolumeChange(callee.data)
       IN  IF \E k \in DOMAIN Volume_Change : IncorrectIndicator(Volume_Change[k])
           THEN Raise("ValueError", 249)
           ELSE callee' = [callee EXCEPT
                    !.pc = "return",
                    !.data = VolumeChangeFrame(callee.data, Volume_Change)]
    /\ CallerUnchanged
    /\ UNCHANGED <<pdr_override, net>>

\* A direct call of percent_change or volume_change ends as its activation
\* ends.
Deliver ==
    /\ pc = "call"
    /\ callee.pc \in {"return", "raised"}
    /\ pc' = "done"
    /\ IF callee.pc = "return"
       THEN outcome' = [kind |-> "return", exc |-> NoExc] /\ retval' = callee.data
       ELSE outcome' = [kind |-> "raise", exc |-> callee.exc] /\ UNCHANGED retval
    /\ UNCHANGED <<pdr_override, op, callee, stock_profit, benchmark_profit, profit_df,
                   vdf, display, net>>

\* --------------------------------------------------------- profit_viz
\* The public call ends by raising.
Raised(type, line) ==
    /\ outcome' = [kind |-> "raise", exc |-> Exc(type, line)]
    /\ pc' = "done"

\* Lines 117-118: the two lookup objects, built before the try.
profit_viz_tickers ==
    /\ pc = "tickers"
    /\ \E ticker \in yf_Ticker(op.stock_ticker),
          bench_ticker \in yf_Ticker(op.benchmark_ticker) :
        IF ticker = "AttributeError" THEN Raised("AttributeError", 117)
        ELSE IF bench_ticker = "AttributeError" THEN Raised("AttributeError", 118)
        ELSE pc' = "stock_ticker" /\ UNCHANGED outcome
    /\ UNCHANGED <<pdr_override, op, callee, stock_profit, benchmark_profit, profit_df,
                   vdf, display, retval, net>>

\* Lines 122-127: the stock ticker's lookup, a call to the provider, and
\* only then the test of its type.  Line 154-156 re-raise what is raised.
profit_viz_stock_ticker ==
    /\ pc = "stock_ticker"
    /\ net' = Append(net, "info")
    /\ \E info \in regularMarketPrice :
        IF info = "None" THEN Raised("NameError", 123)
        ELSE IF op.stock_ticker.type # "str" THEN Raised("TypeError", 127)
        ELSE pc' = "bench_ticker" /\ UNCHANGED outcome
    /\ UNCHANGED <<pdr_override, op, callee, stock_profit, benchmark_profit, profit_df,
                   vdf, display, retval>>

\* Lines 131-136: the same for the benchmark ticker.
profit_viz_bench_ticker ==
    /\ pc = "bench_ticker"
    /\ net' = Append(net, "info")
    /\ \E info \in regularMarketPrice :
        IF info = "None" THEN Raised("NameError", 132)
        ELSE IF op.benchmark_ticker.type # "str" THEN Raised("TypeError", 136)
        ELSE pc' = "dates" /\ UNCHANGED outcome
    /\ UNCHANGED <<pdr_override, op, callee, stock_profit, benchmark_profit, profit_df,
                   vdf, display, retval>>

\* Lines 139-152: the dates; then line 160 calls percent_change for the
\* stock.
profit_viz_dates ==
    /\ pc = "dates"
    /\ LET start == strptime(op.start_date)
           end == strptime(op.end_date)
       IN  IF ~start.ok THEN Raised("ValueError", 142) /\ UNCHANGED callee
           ELSE IF ~end.ok THEN Raised("ValueError", 147) /\ UNCHANGED callee
           ELSE IF DateLess(end, start) THEN Raised("ValueError", 152) /\ UNCHANGED callee
           ELSE /\ pc' = "stock_profit"
                /\ callee' = Call("percent_change", op.stock_ticker, op.start_date,
                                  op.end_date)
                /\ UNCHANGED outcome
    /\ UNCHANGED <<pdr_override, op, stock_profit, benchmark_profit, profit_df,
                   vdf, display, retval, net>>

\* Line 160's assignment, then line 161's call of percent_change for the
\* benchmark.  (reset_index makes the Date index a column; a row carries
\* its Date either way.)
profit_viz_stock_profit ==
    /\ pc = "stock_profit"
    /\ callee.pc = "return"
    /\ stock_profit' = callee.data
    /\ callee' = Call("percent_change", op.benchmark_ticker, op.start_date, op.end_date)
    /\ pc' = "benchmark_profit"
    /\ UNCHANGED <<pdr_override, op, benchmark_profit, profit_df, vdf, display,
                   outcome, retval, net>>

\* Line 161's assignment, the merge of line 162, the rename of line 163.
profit_viz_merge ==
    /\ pc = "benchmark_profit"
    /\ callee.pc = "return"
    /\ benchmark_profit' = callee.data
    /\ profit_df' = RenameProfit(pd_merge(stock_profit, callee.data))
    /\ pc' = "check"
    /\ UNCHANGED <<pdr_override, op, callee, stock_profit, vdf, display, outcome,
                   retval, net>>

\* A faulty variant of profit_viz_except: no exception is passed over.
profit_viz_except_nothing ==
    /\ pc \in {"stock_profit", "benchmark_profit"}
    /\ callee.pc = "raised"
    /\ Raised(callee.exc.type, callee.exc.line)
    /\ UNCHANGED <<pdr_override, op, callee, stock_profit, benchmark_profit, profit_df,
                   vdf, display, retval, net>>

\* Lines 165-166: an AttributeError of either call is passed over; any
\* other exception leaves profit_viz.
profit_viz_except ==
    /\ pc \in {"stock_profit", "benchmark_profit"}
    /\ callee.pc = "raised"
    /\ IF callee.exc.type = "AttributeError"
       THEN pc' = "check" /\ UNCHANGED outcome
       ELSE Raised(callee.exc.type, callee.exc.line)
    /\ UNCHANGED <<pdr_override, op, callee, stock_profit, benchmark_profit, profit_df,
                   vdf, display, retval, net>>

\* Lines 169-193: the three isinstance statements read profit_df,
\* stock_profit and benchmark_profit (an unbound local raises
\* UnboundLocalError, which no handler here catches); then the chart.
profit_viz_chart ==
    /\ pc = "check"
    /\ IF profit_df = Unbound THEN Raised("UnboundLocalError", 170) /\ UNCHANGED retval
       ELSE IF stock_profit = Unbound
            THEN Raised("UnboundLocalError", 175) /\ UNCHANGED retval
       ELSE IF benchmark_profit = Unbound
            THEN Raised("UnboundLocalError", 180) /\ UNCHANGED retval
       ELSE /\ retval' = AltChart(profit_df, op.stock_ticker, op.benchmark_ticker)
            /\ outcome' = [kind |-> "return", exc |-> NoExc]
            /\ pc' = "done"
    /\ UNCHANGED <<pdr_override, op, callee, stock_profit, benchmark_profit, profit_df,
                   vdf, display, net>>

\* --------------------------------------------------------- volume_viz
\* Line 274's assignment.
volume_viz_vdf ==
    /\ pc = "vdf"
    /\ callee.pc = "return"
    /\ vdf' = callee.data
    /\ pc' = "figure"
    /\ UNCHANGED <<pdr_override, op, callee, stock_profit, benchmark_profit, profit_df,
                   display, outcome, retval, net>>

\* Lines 276-277: an AttributeError of volume_change is passed over; any
\* other exception leaves volume_viz.
volume_viz_except ==
    /\ pc = "vdf"
    /\ callee.pc = "raised"
    /\ IF callee.exc.type = "AttributeError"
       THEN pc' = "figure" /\ UNCHANGED outcome
       ELSE Raised(callee.exc.type, callee.exc.line)
    /\ UNCHANGED <<pdr_override, op, callee, stock_profit, benchmark_profit, profit_df,
                   vdf, display, retval, net>>

\* The rows of vdf with the given label, as a bar trace of a colour.
Bar(frame, label, color, name) ==
    [name |-> name, marker_color |-> color, base |-> 0,
     rows |-> SelectSeq(frame.rows, LAMBDA r : r.val[2] = label)]

\* Lines 279-293: the two subsets (an unbound vdf raises
\* UnboundLocalError), the two bar traces, fig.show(); nothing is returned.
volume_viz_figure ==
    /\ pc = "figure"
    /\ IF vdf = Unbound
       THEN Raised("UnboundLocalError", 279) /\ UNCHANGED <<display, retval>>
       ELSE /\ display' = <<Bar(vdf, Increase, "green", "Volume Increase"),
                            Bar(vdf, Decrease, "red", "Volume Decrease")>>
            /\ retval' = None
            /\ outcome' = [kind |-> "return", exc |-> NoExc]
            /\ pc' = "done"
    /\ UNCHANGED <<pdr_override, op, callee, stock_profit, benchmark_profit, profit_df,
                   vdf, net>>

\* The call is over: its locals and its result are discarded; the
\* process-wide override stays as it is.
Finish ==
    /\ pc = "done"
    /\ op' = NoOp
    /\ pc' = "idle"
    /\ callee' = NoCall
    /\ stock_profit' = Unbound
    /\ benchmark_profit' = Unbound
    /\ profit_df' = Unbound
    /\ vdf' = Unbound
    /\ display' = <<>>
    /\ outcome' = NoOutcome
    /\ retval' = None
    /\ net' = <<>>
    /\ UNCHANGED pdr_override

Next ==
    \/ InvokePercentChange
    \/ InvokeVolumeChange
    \/ InvokeProfitViz
    \/ InvokeVolumeViz
    \/ percent_change_ticker
    \/ percent_change_dates
    \/ percent_change_download
    \/ percent_change_rebase
    \/ volume_change_override
    \/ volume_change_ticker
    \/ volume_change_dates
    \/ volume_change_fetch
    \/ volume_change_classify
    \/ Deliver
    \/ profit_viz_tickers
    \/ profit_viz_stock_ticker
    \/ profit_viz_bench_ticker
    \/ profit_viz_dates
    \/ profit_viz_stock_profit
    \/ profit_viz_merge
    \/ profit_viz_except
    \/ profit_viz_chart
    \/ volume_viz_vdf
    \/ volume_viz_except
    \/ volume_viz_figure
    \/ Finish

Spec == Init /\ [][Next]_vars

\* ------------------------------------------------------------- claims
PercentChangeReturned == callee.fn = "percent_change" /\ callee.pc = "return"
VolumeChangeReturned == callee.fn = "volume_change" /\ callee.pc = "return"

\* C1: when percent_change returns, its frame has the fetched frame's
\* length and dates, and in every column whose first fetched close is not
\* zero row 0 is exactly 0 and every later row i is
\* (Close[i] - Close[0]) / Close[0] * 100 of the closes as fetched.
C1_PercentChangeOfOriginalFirstClose ==
    PercentChangeReturned =>
        LET close == callee.fetched.rows
            pct == callee.data.rows
        IN  /\ Len(pct) = Len(close)
            /\ Len(pct) >= 1
            /\ \A k \in DOMAIN close : pct[k].Date = close[k].Date
            /\ \A c \in DOMAIN callee.fetched.cols :
                close[1].val[c].n # 0 =>
                    /\ pct[1].val[c].s = <<"num">> /\ pct[1].val[c].n = 0
                    /\ \A k \in 2..Len(close) :
                        /\ pct[k].val[c].s = <<"num">>
                        /\ pct[k].val[c].d > 0
                        /\ pct[k].val[c].n * close[1].val[c].n
                             = (close[k].val[c].n - close[1].val[c].n) * 100 * pct[k].val[c].d

\* C1's case: three rows in two columns, both first closes non-zero, a
\* later close that differs from the first.
C1_Witness ==
    /\ PercentChangeReturned
    /\ Len(callee.fetched.rows) = 3
    /\ Len(callee.fetched.cols) = 2
    /\ callee.fetched.rows[1].val[1].n # 0
    /\ callee.fetched.rows[1].val[2].n # 0
    /\ callee.fetched.rows[2].val[1].n # callee.fetched.rows[1].val[1].n
    /\ callee.fetched.rows[3].val[2].n # callee.fetched.rows[1].val[2].n
    /\ callee.data.rows[3].val[2].n # 0

\* C2: when volume_change returns, Date and Volume are the fetched ones in
\* the fetched order, row 0 is labelled nan (Undefined), and row i > 0 is
\* labelled Increase iff Volume[i] > Volume[i-1], Decrease iff
\* Volume[i] < Volume[i-1], and nan when the two are equal.
C2_VolumeChangeLabels ==
    VolumeChangeReturned =>
        LET vol == callee.fetched.rows
            out == callee.data.rows
        IN  /\ Len(out) = Len(vol)
            /\ callee.data.cols = <<(<<"Volume">>), (<<"Volume_Change">>)>>
            /\ \A k \in DOMAIN vol :
                /\ out[k].Date = vol[k].Date
                /\ out[k].val[1] = vol[k].val[1]
            /\ \A k \in DOMAIN vol :
                IF k = 1 THEN out[k].val[2] = nan
                ELSE /\ out[k].val[2] = Increase <=> vol[k].val[1].n > vol[k - 1].val[1].n
                     /\ out[k].val[2] = Decrease <=> vol[k].val[1].n < vol[k - 1].val[1].n
                     /\ vol[k].val[1].n = vol[k - 1].val[1].n => out[k].val[2] = nan

\* C2's case: three rows, an equal pair and then an increase.
C2_Witness ==
    /\ VolumeChangeReturned
    /\ Len(callee.data.rows) = 3
    /\ callee.fetched.rows[2].val[1] = callee.fetched.rows[1].val[1]
    /\ callee.data.rows[2].val[2] = nan
    /\ callee.data.rows[3].val[2] = Increase

\* The two dates parse and the end is before the start.
EndBeforeStart(start_date, end_date) ==
    /\ strptime(start_date).ok
    /\ strptime(end_date).ok
    /\ DateLess(strptime(end_date), strptime(start_date))

\* C3 (as claimed): with well-formed dates and the end before the start,
\* volume_change never gets to fetch the volume data.
C3_VolumeChangeRejectsEndBeforeStart ==
    (callee.fn = "volume_change" /\ EndBeforeStart(callee.start_date, callee.end_date)) =>
        /\ callee.pc \notin {"fetch", "classify", "return"}
        /\ callee.fetched = Unbound
        /\ callee.exc.line # 237

\* The lines that raise a validation failure.
ValidationLines == {55, 61, 66, 71, 123, 127, 132, 136, 142, 147, 152, 228, 233, 236}
\* Those of profit_viz's own validation block.
ProfitVizValidationLines == {123, 127, 132, 136, 142, 147, 152}
\* Those that reject a malformed date.
DateFormatLines == {61, 66, 142, 147, 233, 236}

Fetches == {k \in DOMAIN net : net[k] # "info"}

\* C4 (as claimed): a public call that ends in a validation failure has
\* made no call to the provider.
C4_ValidationBeforeAnyNetworkCall ==
    (outcome.kind = "raise" /\ outcome.exc.line \in ValidationLines) => net = <<>>

\* C4 (amended): a validation failure is raised before the function that
\* raises it has downloaded historical data, and one of a public
\* function's own validation before any download of the call; but the
\* ticker lookup has contacted the provider by then.
C4_ValidationBeforeDownload ==
    /\ (callee.pc = "raised" /\ callee.exc.line \in ValidationLines) =>
            /\ callee.fetched = Unbound
            /\ net # <<>>
            /\ net[Len(net)] = "info"
    /\ (outcome.kind = "raise" /\ outcome.exc.line \in ValidationLines) =>
            /\ net # <<>>
            /\ net[1] = "info"
            /\ (op.fn # "profit_viz" \/ outcome.exc.line \in ProfitVizValidationLines)
                    => Fetches = {}

\* C4's case: each public function rejects a malformed date after the
\* lookup; here percent_change, with the lookup made and nothing fetched.
C4_Witness ==
    /\ op.fn = "percent_change"
    /\ outcome.kind = "raise"
    /\ outcome.exc.line \in DateFormatLines
    /\ net = <<"info">>

\* C5 (as claimed): profit_viz with a ticker that is no str ends in the
\* TypeError of its type check, and the ticker has not been looked up.
C5_NonTextualTickerIsTypeError ==
    (op.fn = "profit_viz" /\ pc = "done"
        /\ (op.stock_ticker.type # "str" \/ op.benchmark_ticker.type # "str")) =>
        /\ outcome.kind = "raise"
        /\ outcome.exc.type = "TypeError"
        /\ op.stock_ticker.type # "str" => net = <<>>
        /\ op.benchmark_ticker.type # "str" => Len(net) <= 1

\* C6: the table profit_viz builds holds exactly the dates of both
\* series, each once, and each row carries the stock's and the
\* benchmark's value of its date.
C6_ProfitTableIsInnerJoin ==
    profit_df # Unbound =>
        /\ Dates(profit_df) = Dates(stock_profit) \cap Dates(benchmark_profit)
        /\ Cardinality(Dates(profit_df)) = Len(profit_df.rows)
        /\ profit_df.cols = <<ProfitPercentStock, ProfitPercentBenchmark>>
        /\ \A k \in DOMAIN profit_df.rows :
            /\ \E i \in DOMAIN stock_profit.rows :
                /\ stock_profit.rows[i].Date = profit_df.rows[k].Date
                /\ stock_profit.rows[i].val[1] = profit_df.rows[k].val[1]
            /\ \E j \in DOMAIN benchmark_profit.rows :
                /\ benchmark_profit.rows[j].Date = profit_df.rows[k].Date
                /\ benchmark_profit.rows[j].val[1] = profit_df.rows[k].val[2]

\* C6's case: each series has a date the other lacks, and the table has a
\* row whose two values differ.
C6_Witness ==
    /\ profit_df # Unbound
    /\ Dates(stock_profit) \ Dates(benchmark_profit) # {}
    /\ Dates(benchmark_profit) \ Dates(stock_profit) # {}
    /\ \E k \in DOMAIN profit_df.rows : profit_df.rows[k].val[1] # profit_df.rows[k].val[2]

\* C7: volume_change never raises line 249's error: every label it
\* computes is Increase, Decrease or nan, and from the fetched frame it
\* reaches its return.
C7_ClassificationNeverRejected ==
    callee.fn = "volume_change" =>
        /\ callee.exc.line # 249
        /\ callee.fetched.kind = "DataFrame" => callee.pc \in {"classify", "return"}
        /\ callee.pc = "return" =>
            \A k \in DOMAIN callee.data.rows :
                callee.data.rows[k].val[2] \in {Increase, Decrease, nan}

\* C7's case: a returned frame with all three labels.
C7_Witness ==
    /\ VolumeChangeReturned
    /\ {callee.data.rows[k].val[2] : k \in DOMAIN callee.data.rows}
         = {Increase, Decrease, nan}

\* An AttributeError of an absent frame (percent_change's drop) was
\* passed over in profit_viz.
AbsentFrameSwallowed ==
    /\ op.fn = "profit_viz"
    /\ callee.exc = Exc("AttributeError", 77)
    /\ pc \in {"check", "done"}

C9_FoldKeysInColourDomain ==
    (op.fn = "profit_viz" /\ outcome.kind = "return") =>
        /\ \A key \in FoldKeys(retval) : key \in Range(retval.color.scale.domain)
        /\ ScaleColor(retval.color.scale, PyStr(retval.fold[1])) = "red"
        /\ ScaleColor(retval.color.scale, PyStr(retval.fold[2])) = "blue"

\* C10 (as claimed): after any sequence of public calls the client's
\* global mode is what it was before the sequence.
C10_GlobalModeUnchanged == pc = "idle" => pdr_override = FALSE

\* C10 (amended): the global mode changes only in volume_change's first
\* statement, which switches the override on, and it is never switched
\* off again; percent_change and profit_viz leave it as it is, and what
\* percent_change returns is the rebased fetched frame whatever the mode.
C10_OnlyVolumeChangeSetsOverride ==
    [][/\ (pdr_override' # pdr_override) =>
            (Running("volume_change", "override") /\ pdr_override')
       /\ (Running("percent_change", "rebase") /\ callee'.pc = "return") =>
            callee'.data = RenameClose([callee'.fetched EXCEPT
                                            !.rows = Rebase(callee'.fetched.rows)])]_vars

\* C10's case: percent_change returns in a process where an earlier
\* volume_change has switched the override on.
C10_Witness ==
    /\ pdr_override
    /\ op.fn = "percent_change"
    /\ PercentChangeReturned
    /\ Len(callee.data.rows) >= 2

=============================================================================
